---- MODULE Spec2Model ----
(***************************************************************************)
(* Quality-gated reflection loop of Gaurav_Kumar/Group_2_project:          *)
(* orchestrator/graph.py drives six agents (agents/*.py) over a shared     *)
(* ResearchState; quality_gate either ends the graph or loops back through *)
(* increment_iteration.                                                    *)
(*                                                                         *)
(* Abstraction of payloads.  An LLM call either raises after its retries   *)
(* ("raise"), returns text _parse_json cannot parse ("unparsable"), or     *)
(* returns a JSON object ("ok").  Of a JSON object only the parts the      *)
(* code branches on or dereferences are kept:                              *)
(*   analysis.findings   "none"    the empty list                          *)
(*                       "dicts"   objects with a list source_indices      *)
(*                       "badidx"  objects whose source_indices is null    *)
(*                       "nondict" entries that are not objects            *)
(*   analysis.claims     the "claim" of every finding, in order            *)
(*   insights.hypotheses "dicts" | "nondict" ("none" for the empty list)   *)
(*   report.follow_up_queries "list" | "noniter" (a truthy non-iterable),  *)
(*                       "none" while no report exists                     *)
(* A web search either raises or returns a list of result urls.            *)
(***************************************************************************)
EXTENDS Integers, Sequences, FiniteSets, TLC

\* ---- bounds of the model ----
MaxIter == 3
MaxSubQ == 1
MaxResults == 1
MaxFaults == 2
GateMaxIter == 4
MaxAnswer == 6
MaxFindings == 3

\* ---- program constants ----
MAX_ITERATIONS == 2
QUALITY_THRESHOLD == 65
MAX_SUB_QUERIES == 5
FALLBACK_QUALITY == 30
FALLBACK_RELIABILITY == 40
STOP_AFTER_ATTEMPT == 3

Query == "q"
SubQueryNames == {"a"}
Urls == {"u1", "u2"}
LlmScores == {50, 72}
GateScores == {0, 30, 40, 64, 65, 70, 100}
GateThresholds == {30, 65, 90}

StageNodes ==
  {"decompose", "retrieve", "analyze", "fact_check", "generate_insights", "build_report"}

\* Every node of the graph, the conditional edge's router included.
Nodes == StageNodes \cup {"quality_gate", "increment_iteration"}

VARIABLES
  pc,         \* node about to run / position inside run_research
  initial_state, \* the dict run_research builds and passes to graph.invoke
  state,      \* the ResearchState held by the graph's channels
  threshold,  \* settings.QUALITY_THRESHOLD
  decision,   \* last value returned by quality_gate ("none" before the first)
  result,     \* dict returned by run_research (once pc = "done")
  outcome,    \* "running" | "accept" | "exception" | "propagated"
  runs,       \* history: completed executions per node
  started,    \* history: number of passes begun (entries into decompose)
  scores,     \* history: quality_score of the report each build_report produced
  appended,   \* history: every entry a stage appended to errors, in order
  last,       \* history: last stage executed, whether its capability failed,
              \* how long errors was before it, whether it removed a sub-query,
              \* how its LLM call failed and after how many attempts, how
              \* often a search that raised was attempted, how many search
              \* results it did not keep
  steps,      \* history: number of steps taken
  faults,     \* history: capability failures and malformed payloads injected
  asked,      \* history: the outcome of the decomposer's last LLM call
  llm,        \* the LLMClient's usage counters, and (history) the calls and
              \* searches made during this call of run_research
  g4,         \* Group_4_Submission: the graph's position and ResearchState
  mm          \* Multimodal AI Design Analysis: report composition and persistence

\* The variables of Group_2_project's run_research.
research ==
  <<pc, initial_state, state, threshold, decision, result, outcome, runs, started, scores,
    appended, last, steps, faults, asked, llm>>

vars == <<research, g4, mm>>

\* ---------------------------------------------------------------- helpers

RECURSIVE SeqsUpTo(_, _)
SeqsUpTo(S, n) ==
  IF n = 0 THEN {<<>>}
  ELSE LET shorter == SeqsUpTo(S, n - 1)
       IN shorter \cup {Append(s, x) : s \in {t \in shorter : Len(t) = n - 1}, x \in S}

Range(s) == {s[i] : i \in DOMAIN s}

IsPrefix(s, t) == Len(s) <= Len(t) /\ SubSeq(t, 1, Len(s)) = s

\* LangGraph channels without reducers: a key of the update replaces the
\* stored value, every other key keeps it.
Merge(s, upd) ==
  [k \in DOMAIN s |-> IF k \in DOMAIN upd THEN upd[k] ELSE s[k]]

EmptyAnalysis == [executive_summary |-> "unset", findings |-> "none", claims |-> <<>>]
EmptyFactCheck == [verified_claims |-> <<>>, overall_reliability_score |-> 0]
EmptyInsights == [hypotheses |-> "none"]
EmptyReport == [quality_score |-> 0, follow_up_queries |-> "none", built |-> "unset"]
EmptyUsage == [total_calls |-> 0, tavily_calls |-> 0]

\* run_research: initial_state; `arg` is the max_iterations argument, 0
\* standing for None (or 0), which `or` replaces by settings.MAX_ITERATIONS.
InitialState(arg) ==
  [ original_query |-> Query,
    sub_queries    |-> <<>>,
    sources        |-> <<>>,
    analysis       |-> EmptyAnalysis,
    fact_check     |-> EmptyFactCheck,
    insights       |-> EmptyInsights,
    report         |-> EmptyReport,
    iteration      |-> 0,
    max_iterations |-> IF arg = 0 THEN MAX_ITERATIONS ELSE arg,
    quality_score  |-> 0,
    status         |-> "Starting research...",
    errors         |-> <<>>,
    usage_stats    |-> EmptyUsage ]

NoResult == [status |-> "pending"]

LlmFailures == {"raise", "unparsable"}

\* ------------------------------------------------------- external inputs

\* The decomposer's LLM call: it fails, or its JSON holds under
\* "sub_queries" a value of some JSON type; of a string sub_queries lists
\* the characters, of an object the keys.
DecomposerLLM ==
  {[kind |-> k, type |-> "none", sub_queries |-> <<>>] : k \in LlmFailures}
    \cup {[kind |-> "ok", type |-> "list", sub_queries |-> sq] :
            sq \in SeqsUpTo(SubQueryNames, MaxSubQ)}

\* Every answer the decomposer can get: "missing" is a JSON without the
\* key (or a top-level array), "scalar" a number, boolean or null.
DecomposerAnswers ==
  {[kind |-> k, type |-> "none", sub_queries |-> <<>>] : k \in LlmFailures}
    \cup {[kind |-> "ok", type |-> t, sub_queries |-> sq] :
            t \in {"list", "str", "dict"}, sq \in SeqsUpTo(SubQueryNames, MaxAnswer)}
    \cup {[kind |-> "ok", type |-> t, sub_queries |-> <<>>] :
            t \in {"scalar", "missing"}}

\* One Tavily search: it raises, or returns a list of result urls.
SearchOutcomes ==
  {[kind |-> "raise", urls |-> <<>>]}
    \cup {[kind |-> "ok", urls |-> us] : us \in SeqsUpTo(Urls, MaxResults)}

CategorizeLLM == LlmFailures \cup {"ok"}

NoAnalysisCall == [kind |-> "ok", findings |-> "none", claims |-> <<>>]

AnalysisLLM ==
  {[kind |-> k, findings |-> "none", claims |-> <<>>] : k \in LlmFailures}
    \cup {[kind |-> "ok", findings |-> "none", claims |-> <<>>]}
    \cup {[kind |-> "ok", findings |-> f, claims |-> <<"c1">>] :
            f \in {"dicts", "badidx", "nondict"}}

FactCheckLLM == LlmFailures \cup {"ok"}

InsightLLM ==
  {[kind |-> k, hypotheses |-> "none"] : k \in LlmFailures}
    \cup {[kind |-> "ok", hypotheses |-> h] : h \in {"dicts", "nondict"}}

ReportLLM ==
  {[kind |-> k, quality_score |-> 0, follow_up_queries |-> "none"] : k \in LlmFailures}
    \cup {[kind |-> "ok", quality_score |-> q, follow_up_queries |-> f] :
            q \in LlmScores, f \in {"list", "noniter"}}

\* LLMClient.chat under @retry(stop=stop_after_attempt(3), reraise=True):
\* the call is repeated while it raises, three times at most; a response
\* ends the loop, and chat_json parses it after chat has returned.  `kind`
\* is "none" when the stage makes no call.
ChatAttempts(kind) ==
  IF kind = "none" THEN 0
  ELSE IF kind = "raise" THEN STOP_AFTER_ATTEMPT
  ELSE 1

\* RetrieverAgent.run calls _search once per sub-query inside try/except;
\* _search calls tavily.search once.
SearchAttempts(out) == 1

\* Number of results the searches of `outs` returned.
RECURSIVE Fetched(_)
Fetched(outs) ==
  IF outs = <<>> THEN 0 ELSE Len(Head(outs).urls) + Fetched(Tail(outs))

\* LLMClient.chat: a response is entered into call_log (its usage being
\* reported); a call that raised on every attempt is not.
ChatLogged(kind) == IF kind \in {"ok", "unparsable"} THEN 1 ELSE 0

\* The usage counters of a client: metered says whether the model keeps
\* count.  Spec leaves the counters out, as no stage reads them; SpecUsage
\* keeps them.
Unmetered ==
  [metered |-> FALSE, total_calls |-> 0, tavily_calls |-> 0, run_calls |-> 0, run_searches |-> 0]

\* LLMClient.chat appends to call_log; RetrieverAgent._search increments
\* tavily_calls before searching and the retrieve node adds the count to
\* llm._tavily_calls.
Meter(l, calls, searches) ==
  IF l.metered
  THEN [ l EXCEPT !.total_calls = @ + calls, !.tavily_calls = @ + searches,
                  !.run_calls = @ + calls, !.run_searches = @ + searches ]
  ELSE l

\* LLMClient.get_usage_summary, with the tavily_calls run_research adds.
UsageSummary(l) == [total_calls |-> l.total_calls, tavily_calls |-> l.tavily_calls]

\* Number of searches of `outs` that raise.
RECURSIVE RaisedSearches(_)
RaisedSearches(outs) ==
  IF outs = <<>> THEN 0
  ELSE (IF Head(outs).kind = "raise" THEN 1 ELSE 0) + RaisedSearches(Tail(outs))

\* What an input costs of the fault budget: a failed call, or a payload of
\* a shape the prompts do not ask for.
Cost(bad) == IF bad THEN 1 ELSE 0

\* The environment may inject `n` more faults.
Within(n) ==
  /\ faults + n <= MaxFaults
  /\ faults' = faults + n

\* ------------------------------------------------------------ the agents

\* DecomposerAgent.run, before its try block: on a reflection pass the
\* follow-up queries of the previous report are joined into the prompt.
DecomposerRaises(s) ==
  /\ s.iteration > 0
  /\ s.report.built # "unset"
  /\ s.report.follow_up_queries = "noniter"

DecomposerRunAppends(s, out) ==
  IF out.kind # "ok"
  THEN [ sub_queries |-> s.sub_queries \o <<s.original_query>>,
         status      |-> "Decomposition fallback",
         errors      |-> Append(s.errors, "Decomposer") ]
  ELSE [ sub_queries |-> s.sub_queries \o out.sub_queries,
         status      |-> "Decomposed" ]

\* DecomposerAgent.run also resetting the loop counter.
DecomposerRunResetsIteration(s, out) ==
  [ sub_queries |-> <<s.original_query>>,
    iteration   |-> 0,
    status      |-> "Decomposed" ]

\* DecomposerAgent.run, inside its try block: len() of a number, a
\* boolean or None raises TypeError, and so does slicing a dict.
DecomposerTypeError(out) ==
  \/ out.type = "scalar"
  \/ out.type = "dict" /\ Len(out.sub_queries) > MAX_SUB_QUERIES

DecomposerFallsBack(out) == out.kind # "ok" \/ DecomposerTypeError(out)

DecomposerRun(s, out) ==
  IF DecomposerFallsBack(out)
  THEN [ sub_queries |-> <<s.original_query>>,
         status      |-> "Decomposition fallback",
         errors      |-> Append(s.errors, "Decomposer") ]
  ELSE LET sq  == IF out.type = "missing" THEN <<s.original_query>>
                  ELSE out.sub_queries
           cut == IF Len(sq) > MAX_SUB_QUERIES THEN SubSeq(sq, 1, MAX_SUB_QUERIES) ELSE sq
           fin == IF cut = <<>> THEN <<s.original_query>> ELSE cut
       IN [ sub_queries |-> fin,
            status      |-> "Decomposed" ]

\* The Python type of the value DecomposerAgent.run stores: a slice of a
\* string is a string, a short dict is stored as it is; the default, the
\* replacement of an empty value and the fallback are lists.
DecomposerStoredType(out) ==
  IF DecomposerFallsBack(out) \/ out.type = "missing" \/ out.sub_queries = <<>>
  THEN "list"
  ELSE out.type

\* RetrieverAgent.run, the loop over one search's results: a url not seen
\* yet is recorded and its source kept.
KeepAll(urls, seen, acc) == acc \o urls

RECURSIVE KeepNew(_, _, _)
KeepNew(urls, seen, acc) ==
  IF urls = <<>> THEN acc
  ELSE IF Head(urls) \in seen \cup Range(acc)
       THEN KeepNew(Tail(urls), seen, acc)
       ELSE KeepNew(Tail(urls), seen, Append(acc, Head(urls)))

\* RetrieverAgent.run, the loop over the sub-queries: a search that raises
\* is logged and skipped.
RECURSIVE SearchAll(_, _, _)
SearchAll(outs, seen, acc) ==
  IF outs = <<>> THEN acc
  ELSE IF Head(outs).kind = "raise"
       THEN SearchAll(Tail(outs), seen, acc)
       ELSE SearchAll(Tail(outs), seen, KeepNew(Head(outs).urls, seen, acc))

ExistingUrls(s) == {s.sources[i].url : i \in DOMAIN s.sources}

\* RetrieverAgent._categorize_sources: the same sources in the same order,
\* their source_type set by the LLM or, when the call fails, by the
\* rule-based fallback.  source_type is only ever formatted into prompts
\* and the UI, so of a source the model keeps the url alone.
CategorizeSources(urls, cat) ==
  [i \in DOMAIN urls |-> [url |-> urls[i]]]

NewSources(s, outs, cat) ==
  CategorizeSources(SearchAll(outs, ExistingUrls(s), <<>>), cat)

RetrieverRunOverwrites(s, outs, cat) ==
  [ sources |-> NewSources(s, outs, cat),
    status  |-> "Retrieved" ]

RetrieverRun(s, outs, cat) ==
  [ sources |-> s.sources \o NewSources(s, outs, cat),
    status  |-> "Retrieved" ]

\* RetrieverAgent.run: the categorisation call is made only when new
\* sources were collected.
RetrieverCallsLLM(s, outs) == SearchAll(outs, ExistingUrls(s), <<>>) # <<>>

\* Whether a capability the retriever used failed: one of its searches, or
\* the categorisation call.
RetrieverCapabilityFailed(s, outs, cat) ==
  \/ \E i \in DOMAIN outs : outs[i].kind = "raise"
  \/ RetrieverCallsLLM(s, outs) /\ cat # "ok"

\* AnalysisAgent.run
AnalysisCallsLLM(s) == s.sources # <<>>

AnalysisRun(s, out) ==
  IF ~AnalysisCallsLLM(s)
  THEN [ analysis |-> [ executive_summary |-> "no_sources", findings |-> "none",
                        claims |-> <<>> ],
         status   |-> "Analysis: No sources available" ]
  ELSE IF out.kind # "ok"
  THEN [ analysis |-> [ executive_summary |-> "error", findings |-> "none",
                        claims |-> <<>> ],
         status   |-> "Analysis error",
         errors   |-> Append(s.errors, "Analysis") ]
  ELSE [ analysis |-> [ executive_summary |-> "llm", findings |-> out.findings,
                        claims |-> out.claims ],
         status   |-> "Analyzed" ]

\* FactCheckerAgent.run: _format_findings runs before the try block and
\* calls .get on every finding.
FactCheckerCallsLLM(s) == s.analysis.findings # "none"

FactCheckerRaises(s) == s.analysis.findings = "nondict"

\* The except branch passing the findings through in reverse.
UnverifiedReversed(claims) ==
  [i \in DOMAIN claims |->
     [ claim |-> claims[Len(claims) + 1 - i], confidence_score |-> 50,
       status |-> "unverified" ]]

\* FactCheckerAgent.run, except branch: the findings passed through.
Unverified(claims) ==
  [i \in DOMAIN claims |->
     [claim |-> claims[i], confidence_score |-> 50, status |-> "unverified"]]

\* Of the LLM's answer the model keeps one entry.
CheckedByLLM == <<[claim |-> "c1", confidence_score |-> 90, status |-> "verified"]>>

FactCheckerRun(s, out) ==
  IF ~FactCheckerCallsLLM(s)
  THEN [ fact_check |-> [verified_claims |-> <<>>, overall_reliability_score |-> 0],
         status     |-> "Fact-check: No findings to verify" ]
  ELSE IF out # "ok"
  THEN [ fact_check |-> [ verified_claims |-> Unverified(s.analysis.claims),
                          overall_reliability_score |-> FALLBACK_RELIABILITY ],
         status     |-> "Fact-check fallback",
         errors     |-> Append(s.errors, "FactChecker") ]
  ELSE [ fact_check |-> [verified_claims |-> CheckedByLLM, overall_reliability_score |-> 50],
         status     |-> "Fact-checked" ]

\* InsightAgent.run
InsightRun(s, out) ==
  IF out.kind # "ok"
  THEN [ insights |-> [hypotheses |-> "none"],
         status   |-> "Insight error",
         errors   |-> Append(s.errors, "Insights") ]
  ELSE [ insights |-> [hypotheses |-> out.hypotheses],
         status   |-> "Generated insights" ]

\* ReportAgent.run: _format_insights runs before the try block and calls
\* .get on every hypothesis; _build_fallback_report runs inside the except
\* handler and takes len() of every finding's source_indices.
ReportRaises(s, out) ==
  \/ s.insights.hypotheses = "nondict"
  \/ out.kind # "ok" /\ s.analysis.findings = "badidx"

ReportRunStaleScore(s, out) ==
  IF out.kind # "ok"
  THEN [ report        |-> [ quality_score     |-> FALLBACK_QUALITY,
                             follow_up_queries |-> "list",
                             built             |-> "fallback" ],
         quality_score |-> FALLBACK_QUALITY,
         status        |-> "Report fallback",
         errors        |-> Append(s.errors, "Report") ]
  ELSE [ report        |-> [ quality_score     |-> out.quality_score,
                             follow_up_queries |-> out.follow_up_queries,
                             built             |-> "llm" ],
         quality_score |-> IF s.report.built = "unset"
                           THEN out.quality_score ELSE s.quality_score,
         status        |-> "Report complete" ]

ReportRun(s, out) ==
  IF out.kind # "ok"
  THEN [ report        |-> [ quality_score     |-> FALLBACK_QUALITY,
                             follow_up_queries |-> "list",
                             built             |-> "fallback" ],
         quality_score |-> FALLBACK_QUALITY,
         status        |-> "Report fallback",
         errors        |-> Append(s.errors, "Report") ]
  ELSE [ report        |-> [ quality_score     |-> out.quality_score,
                             follow_up_queries |-> out.follow_up_queries,
                             built             |-> "llm" ],
         quality_score |-> out.quality_score,
         status        |-> "Report complete" ]

\* ------------------------------------------------------ the quality gate

quality_gate_no_ceiling(s, thr) ==
  IF s.quality_score >= thr THEN "accept" ELSE "refine"

quality_gate_strict(s, thr) ==
  IF s.quality_score > thr THEN "accept"
  ELSE IF s.iteration + 1 >= s.max_iterations THEN "accept"
  ELSE "refine"

quality_gate_late_ceiling(s, thr) ==
  IF s.quality_score >= thr THEN "accept"
  ELSE IF s.iteration >= s.max_iterations THEN "accept"
  ELSE "refine"

quality_gate_ignores_score(s, thr) ==
  IF s.iteration + 1 >= s.max_iterations THEN "accept" ELSE "refine"

quality_gate(s, thr) ==
  IF s.quality_score >= thr THEN "accept"
  ELSE IF s.iteration + 1 >= s.max_iterations THEN "accept"
  ELSE "refine"

increment_iteration_twice(s) == [iteration |-> s.iteration + 2]

\* increment_iteration
increment_iteration(s) == [iteration |-> s.iteration + 1]


\* ------------------------------------------------- graph and run_research

EdgeSkipsFactCheck(node) ==
  CASE node = "decompose"           -> "retrieve"
    [] node = "retrieve"            -> "analyze"
    [] node = "analyze"             -> "generate_insights"
    [] node = "fact_check"          -> "generate_insights"
    [] node = "generate_insights"   -> "build_report"
    [] node = "build_report"        -> "quality_gate"
    [] node = "increment_iteration" -> "decompose"

\* create_research_graph: the add_edge calls; build_report leads to the
\* conditional edge routed by quality_gate.
Edge(node) ==
  CASE node = "decompose"           -> "retrieve"
    [] node = "retrieve"            -> "analyze"
    [] node = "analyze"             -> "fact_check"
    [] node = "fact_check"          -> "generate_insights"
    [] node = "generate_insights"   -> "build_report"
    [] node = "build_report"        -> "quality_gate"
    [] node = "increment_iteration" -> "decompose"

\* create_research_graph: add_conditional_edges' mapping.
ConditionalEdge(d) == IF d = "accept" THEN "END" ELSE "increment_iteration"

NoStage ==
  [ node |-> "none", cap_failed |-> FALSE, errors_before |-> 0, dropped |-> FALSE,
    llm_failure |-> "none", llm_attempts |-> 0, search_attempts |-> 0, duplicates |-> 0,
    keys |-> {} ]

\* What is recorded of a stage's execution: `kind` is the outcome of its
\* LLM call ("none" without a call), `outs` the outcomes of its searches,
\* `kept` the number of sources it added, `keys` the keys of its update.
StageLog(node, capFailed, dropped, kind, outs, kept, keys) ==
  [ node            |-> node,
    cap_failed      |-> capFailed,
    errors_before   |-> Len(state.errors),
    dropped         |-> dropped,
    llm_failure     |-> IF kind \in LlmFailures THEN kind ELSE "none",
    llm_attempts    |-> ChatAttempts(kind),
    search_attempts |-> IF \E i \in DOMAIN outs : outs[i].kind = "raise"
                        THEN SearchAttempts(CHOOSE o \in Range(outs) : o.kind = "raise")
                        ELSE 0,
    duplicates      |-> Fetched(outs) - kept,
    keys            |-> keys ]

NotAsked == [kind |-> "none", sub_queries |-> <<>>, type |-> "none"]

\* The other two programs, not started.
G4Idle == [pc |-> "idle"]
MMIdle == [pc |-> "idle"]

\* What constructing the clients and agents can do: succeed, or raise in
\* LLMClient() or in RetrieverAgent.__init__ (TavilyClient).
SetupOutcomes == {"ok", "llm_client_raises", "tavily_client_raises"}

\* A call of run_research: its arguments are fixed, nothing is built yet.
Init ==
  /\ \E arg \in 0..MaxIter : initial_state = InitialState(arg)
  /\ llm = Unmetered
  /\ state = initial_state
  /\ threshold = QUALITY_THRESHOLD
  /\ pc = "setup"
  /\ decision = "none"
  /\ result = NoResult
  /\ outcome = "running"
  /\ runs = [n \in Nodes |-> 0]
  /\ started = 0
  /\ scores = <<>>
  /\ appended = <<>>
  /\ last = NoStage
  /\ steps = 0
  /\ faults = 0
  /\ asked = NotAsked
  /\ g4 = G4Idle
  /\ mm = MMIdle

\* A node returned `upd`: the graph merges it and follows the node's edge.
NodeReturns(node, upd, capFailed, kind, outs) ==
  /\ state' = Merge(state, upd)
  /\ pc' = Edge(node)
  /\ runs' = [runs EXCEPT ![node] = @ + 1]
  /\ appended' = IF "errors" \in DOMAIN upd
                 THEN Append(appended, upd.errors[Len(upd.errors)])
                 ELSE appended
  /\ last' = StageLog(node, capFailed,
                      /\ "sub_queries" \in DOMAIN upd
                      /\ ~(Range(state.sub_queries) \subseteq Range(upd.sub_queries)),
                      kind, outs,
                      IF "sources" \in DOMAIN upd
                      THEN Len(upd.sources) - Len(state.sources) ELSE 0,
                      DOMAIN upd)
  /\ llm' = Meter(llm, ChatLogged(kind), Len(outs))
  /\ steps' = steps + 1
  /\ UNCHANGED <<initial_state, threshold, decision, result, outcome, g4, mm>>

\* A node raised: the exception leaves graph.invoke.
NodeRaises(node, capFailed, kind) ==
  /\ pc' = "raised"
  /\ last' = StageLog(node, capFailed, FALSE, kind, <<>>, 0, {})
  /\ llm' = Meter(llm, ChatLogged(kind), 0)
  /\ steps' = steps + 1
  /\ UNCHANGED <<initial_state, state, threshold, decision, result, outcome, runs,
                 appended, g4, mm>>

\* run_research before its try block: LLMClient() and
\* create_research_graph build the clients and the agents; an exception
\* raised there leaves run_research.  Otherwise graph.invoke starts the
\* graph at its entry point, decompose.
Setup ==
  /\ pc = "setup"
  /\ \E built \in SetupOutcomes :
       IF built = "ok"
       THEN pc' = "decompose" /\ outcome' = outcome
       ELSE pc' = "propagated" /\ outcome' = "propagated"
  /\ steps' = steps + 1
  /\ UNCHANGED <<initial_state, state, threshold, decision, result, runs, started, scores,
                 appended, last, faults, asked, llm, g4, mm>>

DecomposeOn(answers) ==
  /\ pc = "decompose"
  /\ started' = started + 1
  /\ UNCHANGED scores
  /\ IF DecomposerRaises(state)
     THEN NodeRaises("decompose", FALSE, "none") /\ Within(0) /\ UNCHANGED asked
     ELSE \E out \in answers :
            /\ Within(Cost(out.kind # "ok"))
            /\ asked' = [ kind        |-> IF out.kind = "ok" THEN "ok" ELSE "failed",
                          sub_queries |-> out.sub_queries,
                          type        |-> DecomposerStoredType(out) ]
            /\ NodeReturns("decompose", DecomposerRun(state, out), out.kind # "ok",
                           out.kind, <<>>)

Decompose == DecomposeOn(DecomposerLLM)

Retrieve ==
  /\ pc = "retrieve"
  /\ UNCHANGED <<started, scores, asked>>
  /\ \E outs \in [1..Len(state.sub_queries) -> SearchOutcomes] :
       \E cat \in IF RetrieverCallsLLM(state, outs) THEN CategorizeLLM ELSE {"ok"} :
         /\ Within(RaisedSearches(outs) + Cost(cat # "ok"))
         /\ NodeReturns("retrieve", RetrieverRun(state, outs, cat),
                        RetrieverCapabilityFailed(state, outs, cat),
                        IF RetrieverCallsLLM(state, outs) THEN cat ELSE "none", outs)

Analyze ==
  /\ pc = "analyze"
  /\ UNCHANGED <<started, scores, asked>>
  /\ \E out \in IF AnalysisCallsLLM(state) THEN AnalysisLLM ELSE {NoAnalysisCall} :
       /\ Within(Cost(out.kind # "ok" \/ out.findings \in {"badidx", "nondict"}))
       /\ NodeReturns("analyze", AnalysisRun(state, out), out.kind # "ok",
                      IF AnalysisCallsLLM(state) THEN out.kind ELSE "none", <<>>)

FactCheck ==
  /\ pc = "fact_check"
  /\ UNCHANGED <<started, scores, asked>>
  /\ IF FactCheckerRaises(state)
     THEN NodeRaises("fact_check", FALSE, "none") /\ Within(0)
     ELSE \E out \in IF FactCheckerCallsLLM(state) THEN FactCheckLLM ELSE {"ok"} :
            /\ Within(Cost(out # "ok"))
            /\ NodeReturns("fact_check", FactCheckerRun(state, out), out # "ok",
                           IF FactCheckerCallsLLM(state) THEN out ELSE "none", <<>>)

GenerateInsights ==
  /\ pc = "generate_insights"
  /\ UNCHANGED <<started, scores, asked>>
  /\ \E out \in InsightLLM :
       /\ Within(Cost(out.kind # "ok" \/ out.hypotheses = "nondict"))
       /\ NodeReturns("generate_insights", InsightRun(state, out), out.kind # "ok",
                      out.kind, <<>>)

BuildReport ==
  /\ pc = "build_report"
  /\ UNCHANGED <<started, asked>>
  /\ \E out \in ReportLLM :
       /\ Within(Cost(out.kind # "ok" \/ out.follow_up_queries = "noniter"))
       /\ IF ReportRaises(state, out)
          THEN /\ NodeRaises("build_report",
                               state.insights.hypotheses # "nondict" /\ out.kind # "ok",
                               IF state.insights.hypotheses = "nondict"
                               THEN "none" ELSE out.kind)
               /\ UNCHANGED scores
          ELSE /\ NodeReturns("build_report", ReportRun(state, out), out.kind # "ok",
                              out.kind, <<>>)
               /\ scores' = Append(scores, ReportRun(state, out).report.quality_score)

\* The conditional edge after build_report.
QualityGate ==
  /\ pc = "quality_gate"
  /\ decision' = quality_gate(state, threshold)
  /\ pc' = ConditionalEdge(decision')
  /\ runs' = [runs EXCEPT !["quality_gate"] = @ + 1]
  /\ steps' = steps + 1
  /\ UNCHANGED <<initial_state, state, threshold, result, outcome, started,
                 scores, appended, last, faults, asked, llm, g4, mm>>

\* The iteration cap only stops runaway counting when the gate is altered;
\* the gate itself keeps iteration below max_iterations.
IncrementIteration ==
  /\ pc = "increment_iteration"
  /\ state.iteration < MaxIter + 2
  /\ state' = Merge(state, increment_iteration(state))
  /\ pc' = Edge("increment_iteration")
  /\ runs' = [runs EXCEPT !["increment_iteration"] = @ + 1]
  /\ steps' = steps + 1
  /\ UNCHANGED <<initial_state, threshold, decision, result, outcome, started,
                 scores, appended, last, faults, asked, llm, g4, mm>>

\* run_research, after graph.invoke returned: the final state is returned.
Return ==
  /\ pc = "END"
  /\ result' = Merge(state, [usage_stats |-> UsageSummary(llm)])
  /\ outcome' = "accept"
  /\ pc' = "done"
  /\ steps' = steps + 1
  /\ UNCHANGED <<initial_state, state, threshold, decision, runs, started, scores,
                 appended, last, faults, asked, llm, g4, mm>>

\* run_research, except branch: initial_state is patched and returned.
Except ==
  /\ pc = "raised"
  /\ result' = Merge(initial_state,
                     [ status      |-> "Pipeline error",
                       errors      |-> <<"Pipeline">>,
                       usage_stats |-> [UsageSummary(llm) EXCEPT !.tavily_calls = 0] ])
  /\ outcome' = "exception"
  /\ pc' = "done"
  /\ steps' = steps + 1
  /\ UNCHANGED <<initial_state, state, threshold, decision, runs, started, scores,
                 appended, last, faults, asked, llm, g4, mm>>

Next ==
  \/ Setup
  \/ Decompose
  \/ Retrieve
  \/ Analyze
  \/ FactCheck
  \/ GenerateInsights
  \/ BuildReport
  \/ QualityGate
  \/ IncrementIteration
  \/ Return
  \/ Except

Spec == Init /\ [][Next]_vars

\* ---- the usage counters, with the client the caller passes ----

\* The client a caller passes to run_research: one just constructed, or
\* the one it passed to an earlier call, whose single pass made 5 LLM calls
\* and 1 search.
PassedClients ==
  { [Unmetered EXCEPT !.metered = TRUE],
    [Unmetered EXCEPT !.metered = TRUE, !.total_calls = 5, !.tavily_calls = 1] }

\* A call run_research(query, llm=client, max_iterations=arg), arg being
\* None or 1.
InitUsage ==
  /\ \E arg \in {0, 1} : initial_state = InitialState(arg)
  /\ llm \in PassedClients
  /\ state = initial_state
  /\ threshold = QUALITY_THRESHOLD
  /\ pc = "setup"
  /\ decision = "none"
  /\ result = NoResult
  /\ outcome = "running"
  /\ runs = [n \in Nodes |-> 0]
  /\ started = 0
  /\ scores = <<>>
  /\ appended = <<>>
  /\ last = NoStage
  /\ steps = 0
  /\ faults = 0
  /\ asked = NotAsked
  /\ g4 = G4Idle
  /\ mm = MMIdle

SpecUsage == InitUsage /\ [][Next]_vars

\* ---- the decomposer alone, on every answer of the LLM ----

\* The states decompose is entered in: the first pass, or a second pass
\* after a report that lists follow-up queries.
DecomposerEntryStates ==
  {InitialState(0)} \cup
  {[InitialState(0) EXCEPT !.iteration = 1, !.sub_queries = sq, !.errors = errs,
                           !.report = [ quality_score     |-> FALLBACK_QUALITY,
                                        follow_up_queries |-> "list",
                                        built             |-> "fallback" ],
                           !.quality_score = FALLBACK_QUALITY] :
     sq \in {<<"a">>, <<Query>>},
     errs \in {<<"Report">>, <<"Analysis", "Report">>, <<"Decomposer", "Report">>}}

InitDecomposer ==
  /\ initial_state = InitialState(0)
  /\ state \in DecomposerEntryStates
  /\ threshold = QUALITY_THRESHOLD
  /\ pc = "decompose"
  /\ decision = "none"
  /\ result = NoResult
  /\ outcome = "running"
  /\ runs = [n \in Nodes |-> 0]
  /\ started = state.iteration
  /\ scores = <<>>
  /\ appended = state.errors
  /\ last = NoStage
  /\ steps = 0
  /\ faults = 0
  /\ asked = NotAsked
  /\ llm = Unmetered
  /\ g4 = G4Idle
  /\ mm = MMIdle

DecomposerApply == DecomposeOn(DecomposerAnswers)

NextDecomposer == DecomposerApply

SpecDecomposer == InitDecomposer /\ [][NextDecomposer]_vars

\* ---- the fact-checker alone, on every list of findings ----

FindingClaims == {"c1", "c2"}

\* The states fact_check is entered in: sources were retrieved and the
\* analyzer returned a list of findings, possibly empty.
FactCheckerEntryStates ==
  {[InitialState(0) EXCEPT !.iteration = it, !.sub_queries = <<"a">>,
                           !.sources = <<[url |-> "u1"]>>, !.errors = errs,
                           !.analysis = [ executive_summary |-> "llm",
                                          findings |-> IF cl = <<>> THEN "none" ELSE "dicts",
                                          claims   |-> cl ]] :
     it \in 0..1, errs \in {<<>>, <<"Decomposer">>},
     cl \in SeqsUpTo(FindingClaims, MaxFindings)}

InitFactChecker ==
  /\ initial_state = InitialState(0)
  /\ state \in FactCheckerEntryStates
  /\ threshold = QUALITY_THRESHOLD
  /\ pc = "fact_check"
  /\ decision = "none"
  /\ result = NoResult
  /\ outcome = "running"
  /\ runs = [n \in Nodes |-> 0]
  /\ started = state.iteration + 1
  /\ scores = <<>>
  /\ appended = state.errors
  /\ last = NoStage
  /\ steps = 0
  /\ faults = 0
  /\ asked = NotAsked
  /\ llm = Unmetered
  /\ g4 = G4Idle
  /\ mm = MMIdle

NextFactChecker == FactCheck

SpecFactChecker == InitFactChecker /\ [][NextFactChecker]_vars

\* ---- the gate alone, on arbitrary inputs ----

InitGate ==
  /\ initial_state = InitialState(0)
  /\ \E q \in GateScores, it \in 0..GateMaxIter, mx \in 1..GateMaxIter :
       state = [InitialState(mx) EXCEPT !.quality_score = q, !.iteration = it]
  /\ threshold \in GateThresholds
  /\ pc = "gate_in"
  /\ decision = "none"
  /\ result = NoResult
  /\ outcome = "running"
  /\ runs = [n \in Nodes |-> 0]
  /\ started = 0
  /\ scores = <<>>
  /\ appended = <<>>
  /\ last = NoStage
  /\ steps = 0
  /\ faults = 0
  /\ asked = NotAsked
  /\ llm = Unmetered
  /\ g4 = G4Idle
  /\ mm = MMIdle

GateApply ==
  /\ pc = "gate_in"
  /\ decision' = quality_gate(state, threshold)
  /\ pc' = "gate_out"
  /\ UNCHANGED <<initial_state, state, threshold, result, outcome, runs, started,
                 scores, appended, last, steps, faults, asked, llm, g4, mm>>

NextGate == GateApply

SpecGate == InitGate /\ [][NextGate]_vars


\* run_research not called: the state the other programs' specifications
\* keep Group_2_project in.
ResearchIdle ==
  /\ initial_state = InitialState(0)
  /\ state = initial_state
  /\ threshold = QUALITY_THRESHOLD
  /\ pc = "idle"
  /\ decision = "none"
  /\ result = NoResult
  /\ outcome = "running"
  /\ runs = [n \in Nodes |-> 0]
  /\ started = 0
  /\ scores = <<>>
  /\ appended = <<>>
  /\ last = NoStage
  /\ steps = 0
  /\ faults = 0
  /\ asked = NotAsked
  /\ llm = Unmetered

\* ======================================================= Group_4_Submission
\* src/graph.py drives seven agents over a ResearchState whose list fields
\* sub_questions, documents and claims carry the reducer operator.add.  Of a
\* list the model keeps the length, of top_contradiction and of the texts
\* whether they are set.  A capability call (LLM, search tool) succeeds or
\* raises.  Documents are numbered by their position in the accumulated
\* list; a document the extractor reads yields at most one claim.

G4MaxLoops == 2
G4MaxSubQ == 2
G4MaxDocs == 2
G4MaxClaims == 2
MMMaxIssues == 2
MaxChain == 3

Capability == {"ok", "raise"}

G4Nodes ==
  {"strategist", "gatherer", "extractor", "detector", "increment_loop",
   "source_verifier", "knowledge_synthesizer", "narrative_designer"}

\* ClaimExtractor.run reads documents[:20] and returns all_claims[:20].
EXTRACT_LIMIT == 20

G4Accumulating == {"sub_questions", "documents", "claims"}

\* main.py: graph.invoke({"query": ..., "max_loops": ..., "loop_count": 0});
\* the other keys are absent, which every reader defaults to empty.
G4InitialState(maxLoops) ==
  [ sub_questions         |-> 0,
    current_sub_questions |-> 0,
    documents             |-> 0,
    claims                |-> 0,
    contradictions        |-> 0,
    top_contradiction     |-> "unset",
    loop_count            |-> 0,
    max_loops             |-> maxLoops,
    insights              |-> "unset",
    report                |-> "unset",
    stage                 |-> "unset" ]

\* The channels of ResearchState: operator.add on the annotated lists,
\* replacement on every other key.
G4Merge(s, upd) ==
  [k \in DOMAIN s |->
     IF k \notin DOMAIN upd THEN s[k]
     ELSE IF k \in G4Accumulating THEN s[k] + upd[k]
     ELSE upd[k]]

\* ResearchStrategist.run: which branch it takes.
StrategistLoops(s) == s.loop_count > 0 /\ s.top_contradiction = "set"

\* ResearchStrategist.run, loop branch: chain.invoke is not guarded.
StrategistLoopRun(s) ==
  [current_sub_questions |-> 1, stage |-> "retrieving"]

\* ResearchStrategist.run, first-pass branch: search and LLM inside one
\* try; `n` is the number of sub-questions the LLM wrote.
StrategistFirstRun(s, search, chat, n) ==
  IF search = "raise" \/ chat = "raise"
  THEN [sub_questions |-> 1, current_sub_questions |-> 1, stage |-> "retrieving"]
  ELSE [sub_questions |-> n, current_sub_questions |-> n, stage |-> "retrieving"]

\* InformationGatherer.run: each tool call sits in its own try; `d` is the
\* number of documents the calls that succeeded returned.
GathererRun(s, d) == [documents |-> d, stage |-> "synthesizing"]

\* ClaimExtractor.run: the documents it reads, documents[:20] of the
\* accumulated list.
ExtractorReads(s) ==
  1..(IF s.documents > EXTRACT_LIMIT THEN EXTRACT_LIMIT ELSE s.documents)

\* The documents of the current pass: operator.add puts the `gathered`
\* documents the gatherer returned behind the accumulated ones.
PassDocuments(s, gathered) == (s.documents - gathered + 1)..s.documents

\* ClaimExtractor.run: one guarded LLM call per document; `c` is the
\* number of claims left after the deduplication within this run.
ExtractorRun(s, c) ==
  [ claims |-> IF c > EXTRACT_LIMIT THEN EXTRACT_LIMIT ELSE c,
    stage  |-> "editing" ]

\* ConflictDetector.run: no LLM call below two claims; the call and the
\* parsing sit in one try.  `found` says whether the answer lists a
\* contradiction.
DetectorCallsLLM(s) == s.claims >= 2

DetectorRun(s, chat, found) ==
  IF ~DetectorCallsLLM(s) \/ chat = "raise"
  THEN [contradictions |-> 0, stage |-> "debunking"]
  ELSE [ contradictions    |-> IF found THEN 1 ELSE 0,
         top_contradiction |-> IF found THEN "set" ELSE "unset",
         stage             |-> "checking_loop" ]

\* check_contradiction without its loop limit.
CheckContradictionUnbounded(s) ==
  IF s.top_contradiction = "set" THEN "increment_loop" ELSE "source_verifier"

\* check_contradiction
check_contradiction(s) ==
  IF s.top_contradiction = "set" /\ s.loop_count < s.max_loops
  THEN "increment_loop"
  ELSE "source_verifier"

\* increment_loop
increment_loop(s) == [loop_count |-> s.loop_count + 1]

\* SourceVerifier.run: every claim is verified inside a try.
VerifierRun(s) == [stage |-> "insight"]

\* KnowledgeSynthesizer.run: chain.invoke is not guarded.
SynthesizerRun(s) == [insights |-> "set", stage |-> "editing"]

\* NarrativeDesigner.run: chain.invoke is not guarded.
DesignerRun(s) == [report |-> "set", stage |-> "completed"]

\* What is recorded of a node's execution: whether a capability failed,
\* whether the detector's answer listed a contradiction, and the documents
\* the extractor read.
G4NoStage == [node |-> "none", cap_failed |-> FALSE, found |-> FALSE, read |-> {}]

G4NoNote == [found |-> FALSE, read |-> {}, gathered |-> 0, kept |-> {}]

\* main.py / app.py: the graph is invoked at its entry point, strategist.
\* History: `runs` counts the executions of each node, `gathered` the
\* documents of the current pass, `added` how often a claim of the first
\* document of the accumulated list was added to claims.
G4Init ==
  /\ ResearchIdle
  /\ mm = MMIdle
  /\ \E maxLoops \in 0..G4MaxLoops :
       g4 = [ pc       |-> "strategist",
              st       |-> G4InitialState(maxLoops),
              last     |-> G4NoStage,
              passes   |-> 0,
              runs     |-> [n \in G4Nodes |-> 0],
              gathered |-> 0,
              added    |-> 0 ]

\* A node returned `upd`; `next` is the node its edge leads to.
G4Returns(node, upd, capFailed, next, note) ==
  /\ g4' = [ g4 EXCEPT !.pc = next,
                       !.st = G4Merge(g4.st, upd),
                       !.last = [ node |-> node, cap_failed |-> capFailed,
                                  found |-> note.found, read |-> note.read ],
                       !.passes = IF node = "strategist" THEN @ + 1 ELSE @,
                       !.runs = [@ EXCEPT ![node] = @ + 1],
                       !.gathered = IF node = "gatherer" THEN note.gathered ELSE @,
                       !.added = IF 1 \in note.kept THEN @ + 1 ELSE @ ]
  /\ UNCHANGED <<research, mm>>

\* A node raised: the exception leaves graph.invoke.
G4Raises(node, capFailed) ==
  /\ g4' = [ g4 EXCEPT !.pc = "raised",
                       !.last = [ node |-> node, cap_failed |-> capFailed,
                                  found |-> FALSE, read |-> {} ],
                       !.passes = IF node = "strategist" THEN @ + 1 ELSE @ ]
  /\ UNCHANGED <<research, mm>>

G4Strategist ==
  /\ g4.pc = "strategist"
  /\ IF StrategistLoops(g4.st)
     THEN \E chat \in Capability :
            IF chat = "raise"
            THEN G4Raises("strategist", TRUE)
            ELSE G4Returns("strategist", StrategistLoopRun(g4.st), FALSE, "gatherer",
                              G4NoNote)
     ELSE \E search \in Capability, chat \in Capability, n \in 0..G4MaxSubQ :
            G4Returns("strategist", StrategistFirstRun(g4.st, search, chat, n),
                      search = "raise" \/ chat = "raise", "gatherer", G4NoNote)

\* InformationGatherer.run: the queries it runs.
GathererQueries(s) ==
  IF s.current_sub_questions > 0 THEN s.current_sub_questions
  ELSE IF s.sub_questions > 0 THEN s.sub_questions
  ELSE 1

G4Gatherer ==
  /\ g4.pc = "gatherer"
  /\ \E failed \in BOOLEAN, d \in 0..G4MaxDocs :
       /\ (failed /\ GathererQueries(g4.st) = 1) => d = 0
       /\ G4Returns("gatherer", GathererRun(g4.st, d), failed, "extractor",
                    [G4NoNote EXCEPT !.gathered = d])

G4Extractor ==
  /\ g4.pc = "extractor"
  /\ \E failed \in BOOLEAN, kept \in SUBSET ExtractorReads(g4.st) :
       /\ Cardinality(kept) <= G4MaxClaims
       /\ failed => kept # ExtractorReads(g4.st)
       /\ G4Returns("extractor", ExtractorRun(g4.st, Cardinality(kept)), failed,
                    "detector",
                    [G4NoNote EXCEPT !.read = ExtractorReads(g4.st), !.kept = kept])

\* The detector node and the conditional edge that follows it.
G4Detector ==
  /\ g4.pc = "detector"
  /\ \E chat \in IF DetectorCallsLLM(g4.st) THEN Capability ELSE {"ok"},
        found \in BOOLEAN :
       /\ (~DetectorCallsLLM(g4.st) \/ chat = "raise") => ~found
       /\ G4Returns("detector", DetectorRun(g4.st, chat, found), chat = "raise",
                    check_contradiction(G4Merge(g4.st, DetectorRun(g4.st, chat, found))),
                    [G4NoNote EXCEPT !.found = found])

G4IncrementLoop ==
  /\ g4.pc = "increment_loop"
  /\ G4Returns("increment_loop", increment_loop(g4.st), FALSE, "strategist", G4NoNote)

G4SourceVerifier ==
  /\ g4.pc = "source_verifier"
  /\ \E failed \in BOOLEAN :
       /\ g4.st.claims = 0 => ~failed
       /\ G4Returns("source_verifier", VerifierRun(g4.st), failed,
                    "knowledge_synthesizer", G4NoNote)

G4KnowledgeSynthesizer ==
  /\ g4.pc = "knowledge_synthesizer"
  /\ \E chat \in Capability :
       IF chat = "raise"
       THEN G4Raises("knowledge_synthesizer", TRUE)
       ELSE G4Returns("knowledge_synthesizer", SynthesizerRun(g4.st), FALSE,
                      "narrative_designer", G4NoNote)

G4NarrativeDesigner ==
  /\ g4.pc = "narrative_designer"
  /\ \E chat \in Capability :
       IF chat = "raise"
       THEN G4Raises("narrative_designer", TRUE)
       ELSE G4Returns("narrative_designer", DesignerRun(g4.st), FALSE, "END", G4NoNote)

G4Next ==
  \/ G4Strategist
  \/ G4Gatherer
  \/ G4Extractor
  \/ G4Detector
  \/ G4IncrementLoop
  \/ G4SourceVerifier
  \/ G4KnowledgeSynthesizer
  \/ G4NarrativeDesigner

SpecG4 == G4Init /\ [][G4Next]_vars

\* ============================================ Multimodal AI Design Analysis
\* The report path: report_compose_node, validate_report_payload and
\* persist_outputs.  `mm` holds one job: the merged issues the graph
\* reached report_compose_node with, the report payload, the exception
\* that ended the job and the reports written to report.json.

Severity == {"blocker", "high", "medium", "low"}
Impact == {"conversion", "trust", "clarity", "a11y"}

SEVERITY_ORDER(s) ==
  CASE s = "blocker" -> 0 [] s = "high" -> 1 [] s = "medium" -> 2
    [] s = "low" -> 3 [] OTHER -> 99

IMPACT_ORDER(i) ==
  CASE i = "conversion" -> 0 [] i = "trust" -> 1 [] i = "clarity" -> 2
    [] i = "a11y" -> 3 [] OTHER -> 99

FallbackTitle == "No significant issues detected"

\* The titles of the model and the position of title.lower() in the
\* alphabetical order of the lower-cased titles.
Titles == {"Low contrast", "Missing CTA"}

TitleLower(t) ==
  CASE t = "Low contrast" -> 0 [] t = "Missing CTA" -> 1 [] OTHER -> 2

\* An issue as a dict (JSON): the enumerations are plain strings.  The
\* merged issues are dumps of Issue models, so each of them validates;
\* the agents only emit two of the four impacts here.
IssueItems == [title : Titles, severity : Severity,
               impact : {"conversion", "a11y"}]

\* A dict that is no Issue: its severity is outside the enumeration.
BadItem == [title |-> "Low contrast", severity |-> "critical",
            impact |-> "conversion"]

\* Issue.model_validate: the enumeration fields become members (read
\* through .value); an item outside an enumeration raises.
IssueValid(item) == item.severity \in Severity /\ item.impact \in Impact

IssueModelValidate(item) ==
  [title |-> item.title, severity |-> [value |-> item.severity],
   impact |-> [value |-> item.impact]]

\* Issue.model_dump(mode="json")
IssueModelDump(issue) ==
  [title |-> issue.title, severity |-> issue.severity.value,
   impact |-> issue.impact.value]

\* _issue(...) as report_compose_node calls it for the fallback.
FallbackIssue ==
  [title |-> FallbackTitle, severity |-> [value |-> "low"],
   impact |-> [value |-> "clarity"]]

\* The sort key of sort_issues, compared as Python compares tuples.
KeyLess(a, b) ==
  LET sa == SEVERITY_ORDER(a.severity.value)
      sb == SEVERITY_ORDER(b.severity.value)
      ia == IMPACT_ORDER(a.impact.value)
      ib == IMPACT_ORDER(b.impact.value)
  IN \/ sa < sb
     \/ sa = sb /\ ia < ib
     \/ sa = sb /\ ia = ib /\ TitleLower(a.title) < TitleLower(b.title)

\* sorted() is stable: an issue goes behind every issue not greater.
RECURSIVE InsertIssue(_, _)
InsertIssue(sorted, issue) ==
  IF sorted = <<>> THEN <<issue>>
  ELSE IF KeyLess(issue, Head(sorted))
       THEN <<issue>> \o sorted
       ELSE <<Head(sorted)>> \o InsertIssue(Tail(sorted), issue)

RECURSIVE sort_issues(_)
sort_issues(issues) ==
  IF issues = <<>> THEN <<>>
  ELSE InsertIssue(sort_issues(SubSeq(issues, 1, Len(issues) - 1)),
                   issues[Len(issues)])

\* build_report followed by report.model_dump(mode="json")
build_report(issues) ==
  [prioritized_backlog |->
     [i \in DOMAIN sort_issues(issues) |->
        IssueModelDump(sort_issues(issues)[i])]]

\* report_compose_node without its fallback branch.
ReportComposeNoFallback(merged) ==
  build_report([i \in DOMAIN merged |-> IssueModelValidate(merged[i])])

\* report_compose_node: the "report_json" it returns.
report_compose_node(merged) ==
  LET issues == [i \in DOMAIN merged |-> IssueModelValidate(merged[i])]
  IN build_report(IF issues = <<>> THEN <<FallbackIssue>> ELSE issues)

\* validate_report_payload: "ok", or the exception it raises.  A backlog
\* item that is no Issue is a ValidationError, re-raised as ValueError;
\* so is the ValueError of check_backlog_not_empty.
validate_report_payload(payload) ==
  IF \E i \in DOMAIN payload.prioritized_backlog :
       ~IssueValid(payload.prioritized_backlog[i])
  THEN "ValueError"
  ELSE IF payload.prioritized_backlog = <<>> THEN "ValueError" ELSE "ok"

\* GraphState before report_compose_node has set "report_json".
NoReport == [prioritized_backlog |-> <<>>]

MMInit ==
  /\ ResearchIdle
  /\ g4 = G4Idle
  /\ \/ \E merged \in SeqsUpTo(IssueItems, MMMaxIssues) :
          mm = [pc |-> "report_compose", origin |-> "graph",
                merged_issues |-> merged, report_json |-> NoReport,
                raised |-> "none", written |-> {}]
     \/ \E backlog \in SeqsUpTo(IssueItems \cup {BadItem}, MMMaxIssues) :
          mm = [pc |-> "persist_outputs", origin |-> "caller",
                merged_issues |-> <<>>,
                report_json |-> [prioritized_backlog |-> backlog],
                raised |-> "none", written |-> {}]

\* The last node of the graph.
MMReportCompose ==
  /\ mm.pc = "report_compose"
  /\ mm' = [mm EXCEPT !.pc = "persist_outputs",
                      !.report_json = report_compose_node(mm.merged_issues)]
  /\ UNCHANGED <<research, g4>>

\* persist_outputs validates, then writes every file; the caller of the
\* pipeline records "completed" after it, "failed" when it raised.
MMPersistOutputs ==
  /\ mm.pc = "persist_outputs"
  /\ IF validate_report_payload(mm.report_json) = "ok"
     THEN mm' = [mm EXCEPT !.pc = "completed",
                           !.written = {mm.report_json}]
     ELSE mm' = [mm EXCEPT !.pc = "failed",
                           !.raised =
                             validate_report_payload(mm.report_json)]
  /\ UNCHANGED <<research, g4>>

MMNext ==
  \/ MMReportCompose
  \/ MMPersistOutputs

SpecReport == MMInit /\ [][MMNext]_vars

\* ---- merge_dedupe_node ----

\* str.lower() on the titles of the model.
Lower(title) ==
  CASE title = "Low contrast" -> "low contrast"
    [] title = "Missing CTA" -> "missing cta"
    [] OTHER -> title

\* merge_dedupe_node: key = f"{issue['title'].lower()}::{issue['component']}";
\* a component is an enumeration member and holds no "::", so the key
\* determines the pair.
MergeKey(issue) == <<Lower(issue.title), issue.component>>

\* merge_dedupe_node, one iteration of its loop on the dict `merged`, kept
\* as the list of its values in insertion order.  An equally severe issue
\* replacing the one stored.
MergeStepLastWins(merged, issue) ==
  IF \E i \in DOMAIN merged : MergeKey(merged[i]) = MergeKey(issue)
  THEN [i \in DOMAIN merged |->
          IF /\ MergeKey(merged[i]) = MergeKey(issue)
             /\ SEVERITY_ORDER(issue.severity) <= SEVERITY_ORDER(merged[i].severity)
          THEN issue ELSE merged[i]]
  ELSE Append(merged, issue)

MergeStep(merged, issue) ==
  IF \E i \in DOMAIN merged : MergeKey(merged[i]) = MergeKey(issue)
  THEN [i \in DOMAIN merged |->
          IF /\ MergeKey(merged[i]) = MergeKey(issue)
             /\ SEVERITY_ORDER(issue.severity) < SEVERITY_ORDER(merged[i].severity)
          THEN issue ELSE merged[i]]
  ELSE Append(merged, issue)

RECURSIVE MergeAll(_, _)
MergeAll(chain, merged) ==
  IF chain = <<>> THEN merged
  ELSE MergeAll(Tail(chain), MergeStep(merged, Head(chain)))

\* The four analysis agents, in the order merge_dedupe_node chains their
\* bundles.
AnalysisNodes ==
  <<"visual_analysis_agent_node", "ux_critique_agent_node",
    "market_patterns_agent_node", "accessibility_agent_node">>

\* state.get("<agent>_bundle", {}).get("issues", []): a bundle not
\* written yet reads as no issues.
BundleIssues(bundles, node) ==
  IF node \in DOMAIN bundles THEN bundles[node] ELSE <<>>

\* merge_dedupe_node: `bundles` maps each analysis node that has written
\* its bundle to the issues of the bundle.
\* itertools.chain over the four bundles.
BundleChain(bundles) ==
  BundleIssues(bundles, AnalysisNodes[1]) \o BundleIssues(bundles, AnalysisNodes[2])
    \o BundleIssues(bundles, AnalysisNodes[3]) \o BundleIssues(bundles, AnalysisNodes[4])

merge_dedupe_node(bundles) == MergeAll(BundleChain(bundles), <<>>)

\* ---- merge_dedupe_node alone, on every four bundles ----

\* What merge_dedupe_node reads of an issue, with titles that differ in
\* case only.
MergeItems ==
  [ title : {"Low contrast", "low contrast"}, component : {"hero", "cta"},
    severity : {"blocker", "high", "low"} ]

\* The issues `items` split into four bundles: issue i belongs to the
\* agent tags[i] and is told apart by its position in the chain.
Bundled(items, tags) ==
  [n \in Range(AnalysisNodes) |->
     LET mine == {i \in DOMAIN items : AnalysisNodes[tags[i]] = n}
         pos(k) == CHOOSE i \in mine : Cardinality({j \in mine : j < i}) = k - 1
     IN [k \in 1..Cardinality(mine) |->
           [ title |-> items[pos(k)].title, component |-> items[pos(k)].component,
             severity |-> items[pos(k)].severity, agent |-> n, id |-> pos(k) ]]]

MMMergeInit ==
  /\ ResearchIdle
  /\ g4 = G4Idle
  /\ \E items \in SeqsUpTo(MergeItems, MaxChain) :
       \E tags \in [DOMAIN items -> DOMAIN AnalysisNodes] :
         /\ \A i, j \in DOMAIN items : i < j => tags[i] <= tags[j]
         /\ mm = [ pc |-> "merge_dedupe_node", bundles |-> Bundled(items, tags),
                   merged_issues |-> <<>> ]

MMMergeApply ==
  /\ mm.pc = "merge_dedupe_node"
  /\ mm' = [mm EXCEPT !.pc = "report_compose_node",
                      !.merged_issues = merge_dedupe_node(mm.bundles)]
  /\ UNCHANGED <<research, g4>>

MMMergeNext == MMMergeApply

SpecMerge == MMMergeInit /\ [][MMMergeNext]_vars

\* ---- the graph of build_graph, run in supersteps ----
\* The compiled graph runs the nodes scheduled for a step concurrently on
\* the same snapshot of the state, applies their updates when all of them
\* have returned, and schedules for the next step the successors of the
\* nodes that ran.

\* build_graph with the market agent behind the ux agent.
MMEdgesChained ==
  { <<"ingest_node", "signals_node">>, <<"signals_node", "rag_prepare_node">>,
    <<"rag_prepare_node", "visual_analysis_agent_node">>,
    <<"rag_prepare_node", "ux_critique_agent_node">>,
    <<"ux_critique_agent_node", "market_patterns_agent_node">>,
    <<"rag_prepare_node", "accessibility_agent_node">>,
    <<"visual_analysis_agent_node", "merge_dedupe_node">>,
    <<"ux_critique_agent_node", "merge_dedupe_node">>,
    <<"market_patterns_agent_node", "merge_dedupe_node">>,
    <<"accessibility_agent_node", "merge_dedupe_node">>,
    <<"merge_dedupe_node", "report_compose_node">>,
    <<"report_compose_node", "END">> }

MMEdges ==
  { <<"ingest_node", "signals_node">>, <<"signals_node", "rag_prepare_node">>,
    <<"rag_prepare_node", "visual_analysis_agent_node">>,
    <<"rag_prepare_node", "ux_critique_agent_node">>,
    <<"rag_prepare_node", "market_patterns_agent_node">>,
    <<"rag_prepare_node", "accessibility_agent_node">>,
    <<"visual_analysis_agent_node", "merge_dedupe_node">>,
    <<"ux_critique_agent_node", "merge_dedupe_node">>,
    <<"market_patterns_agent_node", "merge_dedupe_node">>,
    <<"accessibility_agent_node", "merge_dedupe_node">>,
    <<"merge_dedupe_node", "report_compose_node">>,
    <<"report_compose_node", "END">> }

MMNodes == {e[1] : e \in MMEdges}

\* The issues an analysis agent may report: the same finding, at one of
\* two severities; `agent` tells the issues of different agents apart.
AgentBundles(node) ==
  {<<>>} \cup
  {<<[title |-> "Low contrast", component |-> "hero", severity |-> sev, agent |-> node]>> :
     sev \in {"high", "low"}}

\* app.invoke: the entry point is scheduled.  History: `order` lists the
\* analysis nodes as they finished, `runs` counts executions, `seen` is
\* the set of bundles written when merge_dedupe_node last ran.
MMFanOutInit ==
  /\ ResearchIdle
  /\ g4 = G4Idle
  /\ mm = [ pc            |-> "superstep",
            active        |-> {"ingest_node"},
            done          |-> {},
            bundles       |-> << >>,
            writes        |-> << >>,
            merged_issues |-> <<>>,
            order         |-> <<>>,
            runs          |-> [n \in MMNodes |-> 0],
            seen          |-> {} ]

\* The update a node returns, computed on the snapshot of the step.
MMNodeUpdates(node) ==
  IF node \in Range(AnalysisNodes) THEN AgentBundles(node)
  ELSE IF node = "merge_dedupe_node" THEN {merge_dedupe_node(mm.bundles)}
  ELSE {<<>>}

\* One of the nodes scheduled for the step returns.
MMNodeReturns ==
  /\ mm.pc = "superstep"
  /\ \E node \in mm.active \ mm.done :
       \E upd \in MMNodeUpdates(node) :
         mm' = [ mm EXCEPT !.done = @ \cup {node},
                           !.writes = [n \in DOMAIN @ \cup {node} |->
                                         IF n = node THEN upd ELSE @[n]],
                           !.order = IF node \in Range(AnalysisNodes)
                                     THEN Append(@, node) ELSE @,
                           !.runs = [@ EXCEPT ![node] = @ + 1],
                           !.seen = IF node = "merge_dedupe_node"
                                    THEN DOMAIN mm.bundles ELSE @ ]
  /\ UNCHANGED <<research, g4>>

\* Every node of the step has returned: the updates are applied and the
\* successors scheduled.
MMStepEnds ==
  /\ mm.pc = "superstep"
  /\ mm.done = mm.active
  /\ LET next == {e[2] : e \in {d \in MMEdges : d[1] \in mm.active}} \ {"END"}
         agents == DOMAIN mm.writes \cap Range(AnalysisNodes)
     IN mm' = [ mm EXCEPT !.pc = IF next = {} THEN "END" ELSE "superstep",
                          !.active = next,
                          !.done = {},
                          !.writes = << >>,
                          !.bundles = [n \in DOMAIN @ \cup agents |->
                                         IF n \in agents THEN mm.writes[n] ELSE @[n]],
                          !.merged_issues =
                            IF "merge_dedupe_node" \in DOMAIN mm.writes
                            THEN mm.writes["merge_dedupe_node"] ELSE @ ]
  /\ UNCHANGED <<research, g4>>

MMFanOutNext ==
  \/ MMNodeReturns
  \/ MMStepEnds

SpecFanOut == MMFanOutInit /\ [][MMFanOutNext]_vars

\* ---- an analysis job: POST /analyze, the pipeline, GET /result ----
\* The job runs in a worker thread (run_in_threadpool, or a background
\* task) while the server answers polls.  save_json opens the file with
\* mode "w", which empties it, and the record reaches the file when the
\* file is closed; the two are separate steps a poll can fall between.

JobStatuses == {"queued", "running", "completed", "failed"}

\* persist_outputs: the files in the order they are saved.
OutputFiles ==
  <<"report.json", "report.md", "action_items.json", "jira_issues.json",
    "github_issues.json">>

\* The status a position of the job writes.
StatusWritten(at) ==
  CASE at = "set_queued" -> "queued"
    [] at = "set_running" -> "running"
    [] at = "set_completed" -> "completed"
    [] at \in {"set_failed_pipeline", "set_failed_job"} -> "failed"
    [] OTHER -> "none"

\* The job recording "completed" before persist_outputs.
JobAfterCompletesEarly(at, ok) ==
  CASE at = "set_queued" -> "set_running"
    [] at = "set_running" -> "build_graph"
    [] at = "build_graph" -> IF ok THEN "invoke" ELSE "set_failed_job"
    [] at = "invoke" -> IF ok THEN "set_completed" ELSE "set_failed_pipeline"
    [] at = "set_completed" -> "persist_outputs"
    [] at = "persist_outputs" -> IF ok THEN "done" ELSE "set_failed_pipeline"
    [] at = "set_failed_pipeline" -> "set_failed_job"
    [] at = "set_failed_job" -> "done"
    [] OTHER -> at

\* analyze, _run_job and run_analysis_pipeline: the position after `at`;
\* `ok` is FALSE when the step raised.  build_graph is called outside the
\* try block of run_analysis_pipeline, so its exception is handled by
\* _run_job alone; an exception inside the try block is recorded by
\* run_analysis_pipeline, re-raised, and recorded again by _run_job.
JobAfter(at, ok) ==
  CASE at = "set_queued" -> "set_running"
    [] at = "set_running" -> "build_graph"
    [] at = "build_graph" -> IF ok THEN "invoke" ELSE "set_failed_job"
    [] at = "invoke" -> IF ok THEN "persist_outputs" ELSE "set_failed_pipeline"
    [] at = "persist_outputs" -> IF ok THEN "set_completed" ELSE "set_failed_pipeline"
    [] at = "set_completed" -> "done"
    [] at = "set_failed_pipeline" -> "set_failed_job"
    [] at = "set_failed_job" -> "done"
    [] OTHER -> at

NoResponse == [status |-> "none", report |-> FALSE]

\* POST /analyze has made the job id.  `file` is job_status.json
\* ("missing", "empty" or the status of the record it holds), `writing`
\* the status of a set_job_status in progress, `outputs` the files
\* persist_outputs has saved, `poll` the position of GET /result, `read`
\* the status it read.  History: `recorded` lists the records written,
\* `raised` says whether the pipeline raised, `response` is the last answer
\* of GET /result.
MMJobInit ==
  /\ ResearchIdle
  /\ g4 = G4Idle
  /\ \E valid \in BOOLEAN :
       mm = [ pc       |-> "set_queued",
              payload  |-> IF valid THEN "valid" ELSE "invalid",
              file     |-> "missing",
              writing  |-> "none",
              outputs  |-> {},
              saved    |-> 0,
              recorded |-> <<>>,
              raised   |-> FALSE,
              poll     |-> "idle",
              read     |-> "none",
              response |-> NoResponse ]

\* set_job_status -> save_json: path.open("w") empties the file.
MMOpenStatus ==
  /\ StatusWritten(mm.pc) # "none"
  /\ mm.writing = "none"
  /\ mm' = [mm EXCEPT !.file = "empty", !.writing = StatusWritten(mm.pc)]
  /\ UNCHANGED <<research, g4>>

\* set_job_status -> save_json: the record is written as the file closes.
MMCloseStatus ==
  /\ mm.writing # "none"
  /\ mm' = [mm EXCEPT !.file = mm.writing,
                      !.recorded = Append(@, mm.writing),
                      !.writing = "none",
                      !.pc = JobAfter(mm.pc, TRUE)]
  /\ UNCHANGED <<research, g4>>

\* run_analysis_pipeline: build_graph(), then app.invoke; either raises or
\* returns.  The report the graph returns is valid or not.
MMPipelineStep ==
  /\ mm.pc \in {"build_graph", "invoke"}
  /\ \E ok \in BOOLEAN :
       mm' = [mm EXCEPT !.pc = JobAfter(mm.pc, ok),
                        !.raised = @ \/ ~ok]
  /\ UNCHANGED <<research, g4>>

\* persist_outputs: validate_report_payload first, then one file after
\* the other; a save may raise.
MMSaveOutput ==
  /\ mm.pc = "persist_outputs"
  /\ IF mm.payload = "invalid"
     THEN mm' = [mm EXCEPT !.pc = JobAfter(mm.pc, FALSE), !.raised = TRUE]
     ELSE \E ok \in BOOLEAN :
            IF ~ok
            THEN mm' = [mm EXCEPT !.pc = JobAfter(mm.pc, FALSE), !.raised = TRUE]
            ELSE mm' = [mm EXCEPT !.saved = @ + 1,
                                  !.outputs = @ \cup {OutputFiles[mm.saved + 1]},
                                  !.pc = IF mm.saved + 1 = Len(OutputFiles)
                                         THEN JobAfter(mm.pc, TRUE) ELSE @]
  /\ UNCHANGED <<research, g4>>

\* GET /result: get_job_status.  A file that exists is parsed; an empty
\* file makes json.load raise.
MMPollStatus ==
  /\ mm.poll = "idle"
  /\ IF mm.file = "completed"
     THEN mm' = [mm EXCEPT !.poll = "load_result_files", !.read = "completed"]
     ELSE mm' = [mm EXCEPT !.read = mm.file,
                           !.response =
                             [ status |-> IF mm.file = "empty" THEN "JSONDecodeError"
                                          ELSE mm.file,
                               report |-> FALSE ]]
  /\ UNCHANGED <<research, g4>>

\* GET /result for a completed job: _load_result_files.
MMPollFiles ==
  /\ mm.poll = "load_result_files"
  /\ mm' = [mm EXCEPT !.poll = "idle",
                      !.response =
                        IF "report.json" \in mm.outputs
                        THEN [status |-> "completed", report |-> TRUE]
                        ELSE [status |-> "failed", report |-> FALSE]]
  /\ UNCHANGED <<research, g4>>

MMJobNext ==
  \/ MMOpenStatus
  \/ MMCloseStatus
  \/ MMPipelineStep
  \/ MMSaveOutput
  \/ MMPollStatus
  \/ MMPollFiles

SpecJob == MMJobInit /\ [][MMJobNext]_vars

\* ================================================================ claims

Passes(n) == \A node \in StageNodes : runs[node] = n

AllScoresFail == \A i \in DOMAIN scores : scores[i] < threshold

\* C1: whatever the scores and whatever degrades, run_research terminates
\* and runs the pipeline at most max_iterations times.  Termination is
\* stated through the step count: every step of the run adds one to
\* `steps`, a run that has not returned or raised can always take a step,
\* and the count never exceeds the setup step plus 8 steps per allowed pass.
TerminatesWithinCeiling ==
  /\ started <= state.max_iterations
  /\ \A node \in StageNodes : runs[node] <= state.max_iterations
  /\ steps <= 1 + 8 * state.max_iterations
  /\ pc \in {"done", "propagated"} \/ ENABLED Next

\* C1 witness: a run of three passes with a degraded stage has returned.
TerminatesWithinCeilingWitness ==
  /\ pc = "done"
  /\ outcome = "accept"
  /\ state.max_iterations = 3
  /\ Passes(3)
  /\ AllScoresFail
  /\ appended # <<>>

\* C2: quality_gate returns "accept" exactly when the score reaches the
\* threshold or iteration + 1 reaches the ceiling, and "refine" otherwise;
\* the three rows of the spec's table come out accept, refine, accept.
GateDecision ==
  pc = "gate_out" =>
    /\ decision \in {"accept", "refine"}
    /\ decision = "accept" <=>
         \/ state.quality_score >= threshold
         \/ state.iteration + 1 >= state.max_iterations
    /\ ( /\ state.quality_score = 70 /\ threshold = 65
         /\ state.iteration = 0 /\ state.max_iterations = 3 ) => decision = "accept"
    /\ ( /\ state.quality_score = 40 /\ threshold = 65
         /\ state.iteration = 0 /\ state.max_iterations = 3 ) => decision = "refine"
    /\ ( /\ state.quality_score = 40 /\ threshold = 65
         /\ state.iteration = 2 /\ state.max_iterations = 3 ) => decision = "accept"

\* C2 witness: the ceiling row of the table was decided.
GateDecisionWitness ==
  /\ pc = "gate_out"
  /\ state.quality_score = 40 /\ threshold = 65
  /\ state.iteration = 2 /\ state.max_iterations = 3
  /\ decision = "accept"

\* C3: when every pass begun produced a score and every score is below the
\* threshold, the run that has returned made exactly max_iterations passes,
\* left through the gate's accept edge and returns iteration =
\* max_iterations - 1.
CeilingAcceptsAfterExactlyN ==
  (pc = "done" /\ Len(scores) = started /\ AllScoresFail) =>
    /\ outcome = "accept"
    /\ decision = "accept"
    /\ started = state.max_iterations
    /\ Passes(state.max_iterations)
    /\ result.iteration = result.max_iterations - 1

\* C3 witness: three failing passes under a ceiling of three.
CeilingAcceptsAfterExactlyNWitness ==
  /\ pc = "done"
  /\ Len(scores) = 3 /\ started = 3
  /\ AllScoresFail
  /\ state.max_iterations = 3
  /\ outcome = "accept"

\* C4: iteration never exceeds the ceiling stored at creation, during the
\* run and in the returned state.
IterationWithinCeiling ==
  /\ state.max_iterations = initial_state.max_iterations
  /\ state.iteration <= state.max_iterations
  /\ pc = "done" =>
       /\ result.max_iterations = initial_state.max_iterations
       /\ result.iteration <= result.max_iterations

\* C4 witness: a run returned after its iteration counter was incremented
\* as far as the gate lets it.
IterationWithinCeilingWitness ==
  /\ pc = "done"
  /\ outcome = "accept"
  /\ result.max_iterations = 3
  /\ result.iteration = 2

\* C5: in a state with quality_score >= threshold or iteration =
\* max_iterations no stage node is about to run, so none runs from it.
NoStageAfterTerminal ==
  (state.quality_score >= threshold \/ state.iteration = state.max_iterations)
    => pc \notin StageNodes \cup {"increment_iteration"}

\* C5 witness: a run accepted on its score with iterations to spare.
NoStageAfterTerminalWitness ==
  /\ pc = "done"
  /\ outcome = "accept"
  /\ state.quality_score >= threshold
  /\ state.iteration + 1 < state.max_iterations
  /\ Passes(state.iteration + 1)

\* C6: a stage whose capability failed returns its fallback update, so the
\* exception never leaves the graph at that stage.
CapabilityFailureIsAbsorbed ==
  last.cap_failed => pc # "raised" /\ outcome # "exception"

\* C7: a stage whose capability failed has made errors longer by at least
\* one entry.
FailingStageLogsError ==
  last.cap_failed => Len(state.errors) >= last.errors_before + 1

\* C8: every step leaves the old sources list a prefix of the new one.
SourcesOnlyGrow == [][IsPrefix(state.sources, state'.sources)]_vars

\* C8 witness: the retriever of the second pass ran with its only search
\* raising (the one fault of the run) and the source of the first pass is
\* still there.
SourcesOnlyGrowWitness ==
  /\ pc = "analyze"
  /\ runs["retrieve"] = 2
  /\ last.node = "retrieve" /\ last.cap_failed
  /\ faults = 1
  /\ Len(state.sub_queries) = 1
  /\ Len(state.sources) = 1

\* C9 as claimed: no step removes a sub-query from sub_queries.
SubQueriesAccumulate ==
  [][Range(state.sub_queries) \subseteq Range(state'.sub_queries)]_vars

\* What the decomposer's output is, given the outcome of its LLM call.
DecomposerOutput(query, kind, answer) ==
  IF kind # "ok" \/ answer = <<>> THEN <<query>>
  ELSE IF Len(answer) > MAX_SUB_QUERIES THEN SubSeq(answer, 1, MAX_SUB_QUERIES)
  ELSE answer

\* C9 as amended: sub_queries is a latest-wins field; once the decomposer
\* has run, sub_queries is the output of its latest run alone, whatever
\* the earlier passes had put there.
SubQueriesLatestWins ==
  runs["decompose"] >= 1 =>
    state.sub_queries = DecomposerOutput(state.original_query, asked.kind, asked.sub_queries)

\* C9 witness: the second decomposer run fell back to the original query
\* and the sub-query of the first pass is gone.
SubQueriesLatestWinsWitness ==
  /\ runs["decompose"] = 2
  /\ last.node = "decompose"
  /\ last.dropped
  /\ asked.kind = "failed"
  /\ state.sub_queries = <<Query>>

\* C10: errors only ever grows by appending, and the list returned to the
\* caller holds every entry a stage appended during the run.
ErrorsAppendOnly ==
  /\ state.errors = appended
  /\ pc = "done" => IsPrefix(appended, result.errors)

\* C11: when an exception left the graph after at least one stage had
\* completed, the returned state still holds what the completed stages
\* wrote (sub_queries, sources, analysis, report, iteration), and its
\* errors are the errors logged so far followed by the triggering error.
PartialStateReturned ==
  (pc = "done" /\ outcome = "exception" /\ \E node \in StageNodes : runs[node] >= 1) =>
    /\ result.sub_queries = state.sub_queries
    /\ result.sources = state.sources
    /\ result.analysis = state.analysis
    /\ result.report = state.report
    /\ result.iteration = state.iteration
    /\ result.errors = Append(state.errors, "Pipeline")

\* C12: a call of run_research that ends before any stage was executed,
\* because a capability could not be set up, does not raise: it returns a
\* state whose errors name the cause and whose report is empty.
SetupFailureReturnsFailed ==
  (pc \in {"done", "propagated"} /\ started = 0) =>
    /\ pc = "done"
    /\ result.errors # <<>>
    /\ result.report = EmptyReport

\* The declared order of the stages.
Order ==
  <<"decompose", "retrieve", "analyze", "fact_check", "generate_insights", "build_report">>

Index(node) == CHOOSE i \in DOMAIN Order : Order[i] = node

\* How many stages of the pass begun last have completed, plus one: the
\* place in Order of the stage that is about to run or that raised.
Position ==
  IF pc \in StageNodes \ {"decompose"} THEN Index(pc)
  ELSE IF pc = "raised" \/ (pc = "done" /\ outcome = "exception") THEN Index(last.node)
  ELSE Len(Order) + 1

\* C14: in every pass the stages run in the declared order, each once, the
\* gate is evaluated once after build_report, and a pass starts only after
\* the gate decision and the increment of the pass before.  Stated through
\* the counts: while pass `started` is under way, the stages before the
\* current position have run `started` times and the others started - 1
\* times, the gate and the increment have run started - 1 times; between
\* passes every stage has run `started` times, and so has the gate once it
\* decided and the increment once it ran.
FixedStageOrder ==
  /\ \A j \in DOMAIN Order :
       runs[Order[j]] = IF j < Position THEN started ELSE started - 1
  /\ runs["quality_gate"] =
       IF \/ pc \in {"setup", "decompose", "increment_iteration", "END", "propagated"}
          \/ pc = "done" /\ outcome = "accept"
       THEN started ELSE started - 1
  /\ runs["increment_iteration"] =
       IF pc \in {"setup", "decompose", "propagated"} THEN started ELSE started - 1
  /\ runs["increment_iteration"] = state.iteration

\* C14 witness: the second pass is about to build its report, after one
\* gate decision and one increment.
FixedStageOrderWitness ==
  /\ pc = "build_report"
  /\ started = 2
  /\ runs["generate_insights"] = 2
  /\ runs["build_report"] = 1
  /\ runs["quality_gate"] = 1
  /\ runs["increment_iteration"] = 1

\* C13: every capability call of a stage is attempted at most 3 times; a
\* stage that fell back because its LLM call or one of its searches kept
\* failing had attempted that call 3 times; a response that could not be
\* parsed was not asked for again.
ThreeAttemptsBeforeFallback ==
  /\ last.llm_attempts <= STOP_AFTER_ATTEMPT
  /\ last.search_attempts <= STOP_AFTER_ATTEMPT
  /\ last.llm_failure = "raise" => last.llm_attempts = STOP_AFTER_ATTEMPT
  /\ last.llm_failure = "unparsable" => last.llm_attempts = 1
  /\ (last.node = "retrieve" /\ last.search_attempts > 0) =>
       last.search_attempts = STOP_AFTER_ATTEMPT

ReturnedStateIsLastPass ==
  (pc = "done" /\ outcome = "accept") =>
    /\ started = result.iteration + 1
    /\ Passes(result.iteration + 1)
    /\ Len(scores) = result.iteration + 1
    /\ result.quality_score = scores[Len(scores)]
    /\ result.report.quality_score = scores[Len(scores)]
    /\ result.report.built # "unset"
    /\ faults = 0 => result.errors = <<>>
    /\ (result.max_iterations = 2 /\ threshold = 65 /\ scores = <<50, 72>>) =>
         /\ Passes(2)
         /\ result.iteration = 1
         /\ result.quality_score = 72

\* C16 witness: the run of the example has returned, nothing having failed.
ReturnedStateIsLastPassWitness ==
  /\ pc = "done" /\ outcome = "accept"
  /\ result.max_iterations = 2 /\ threshold = 65
  /\ scores = <<50, 72>>
  /\ faults = 0
  /\ result.errors = <<>>

\* C18: iteration starts at 0 and only the increment_iteration step
\* changes it, by exactly +1, and that step runs only right after the gate
\* returned "refine".
IterationChangesOnlyOnRefine ==
  [][ /\ pc = "setup" => state.iteration = 0
      /\ state'.iteration # state.iteration =>
           /\ pc = "increment_iteration"
           /\ decision = "refine"
           /\ state'.iteration = state.iteration + 1
      /\ pc' = "increment_iteration" => pc = "quality_gate" /\ decision' = "refine"
      /\ (pc = "quality_gate" /\ decision' = "accept") => pc' # "increment_iteration"
    ]_vars

\* C18 witness: the second increment of a run has happened.
IterationChangesOnlyOnRefineWitness ==
  /\ pc = "decompose"
  /\ decision = "refine"
  /\ state.iteration = 2
  /\ runs["increment_iteration"] = 2

G4FailureStaysInStage ==
  g4.last.cap_failed => g4.pc # "raised"

\* C20: every report report_compose_node produces has at least one backlog
\* issue and is accepted by validate_report_payload; a payload with an
\* empty backlog is rejected with ValueError; and the report persist_outputs
\* wrote never has an empty backlog.
ComposedReportIsPersistable ==
  /\ (mm.pc \notin {"idle", "report_compose"} /\ mm.origin = "graph") =>
        /\ Len(mm.report_json.prioritized_backlog) >= 1
        /\ validate_report_payload(mm.report_json) = "ok"
        /\ mm.pc # "failed"
  /\ (mm.pc \in {"completed", "failed"} /\
       mm.report_json.prioritized_backlog = <<>>) =>
        mm.pc = "failed" /\ mm.raised = "ValueError"
  /\ mm.pc # "idle" =>
        \A report \in mm.written : Len(report.prioritized_backlog) >= 1

\* The merged issue list was empty, the fallback issue was inserted and the
\* report was persisted.
ComposedReportIsPersistableWitness ==
  /\ mm.pc = "completed"
  /\ mm.origin = "graph"
  /\ mm.merged_issues = <<>>
  /\ mm.written = {[prioritized_backlog |-> <<IssueModelDump(FallbackIssue)>>]}

\* C21: the update a stage returns writes only the stage's own output
\* field(s), status and errors, so a stage leaves every other field of the
\* state as it received it; original_query and max_iterations keep their
\* creation values for the whole run, in the state and in the dict returned.
StageOutputs(node) ==
  CASE node = "decompose" -> {"sub_queries"}
    [] node = "retrieve" -> {"sources"}
    [] node = "analyze" -> {"analysis"}
    [] node = "fact_check" -> {"fact_check"}
    [] node = "generate_insights" -> {"insights"}
    [] node = "build_report" -> {"report", "quality_score"}
    [] OTHER -> {}

DecomposerYieldsBoundedList ==
  (pc = "retrieve" /\ last.node = "decompose") =>
    /\ asked.type = "list"
    /\ Len(state.sub_queries) \in 1..MAX_SUB_QUERIES
    /\ asked.kind = "failed" =>
         /\ state.sub_queries = <<state.original_query>>
         /\ Len(state.errors) = last.errors_before + 1
         /\ state.errors[Len(state.errors)] = "Decomposer"

\* C24: when the fact-checker's LLM call failed while findings exist,
\* verified_claims holds one entry per finding, in the findings' order, each
\* "unverified" with confidence_score 50, overall_reliability_score is 40
\* and errors got one "FactChecker" entry more.
FailedFactCheckMarksAllUnverified ==
  (last.node = "fact_check" /\ last.llm_failure # "none") =>
    LET vc == state.fact_check.verified_claims
        cl == state.analysis.claims
    IN /\ cl # <<>>
       /\ Len(vc) = Len(cl)
       /\ \A i \in DOMAIN vc :
            /\ vc[i].claim = cl[i]
            /\ vc[i].status = "unverified"
            /\ vc[i].confidence_score = 50
       /\ state.fact_check.overall_reliability_score = 40
       /\ Len(state.errors) = last.errors_before + 1
       /\ state.errors[Len(state.errors)] = "FactChecker"

\* The call failed with three findings of which the first and the last
\* differ, so their order shows.
FailedFactCheckMarksAllUnverifiedWitness ==
  /\ last.node = "fact_check"
  /\ last.llm_failure = "raise"
  /\ state.analysis.claims = <<"c1", "c1", "c2">>
  /\ Len(state.fact_check.verified_claims) = 3
  /\ state.fact_check.verified_claims[3].claim = "c2"

\* C26: in the Group_4 graph loop_count never exceeds max_loops, the nodes
\* strategist .. detector run at most max_loops + 1 times each, and a run
\* in which no stage raises goes on until END, which it reaches with
\* source_verifier, knowledge_synthesizer and narrative_designer executed
\* exactly once.
G4Pipeline == {"strategist", "gatherer", "extractor", "detector"}

G4Tail == {"source_verifier", "knowledge_synthesizer", "narrative_designer"}

LoopCountWithinMaxLoops ==
  g4.pc # "idle" =>
    /\ g4.st.loop_count <= g4.st.max_loops
    /\ g4.runs["increment_loop"] = g4.st.loop_count
    /\ \A n \in G4Pipeline : g4.runs[n] <= g4.st.max_loops + 1
    /\ \A n \in G4Tail : g4.runs[n] <= 1
    /\ g4.pc \in G4Tail => \A n \in G4Pipeline : g4.runs[n] = g4.st.loop_count + 1
    /\ g4.pc = "END" => \A n \in G4Tail : g4.runs[n] = 1
    /\ g4.pc \notin {"END", "raised"} => ENABLED G4Next

\* A run that looped as often as max_loops allows and reached END.
LoopCountWithinMaxLoopsWitness ==
  /\ g4.pc = "END"
  /\ g4.st.max_loops = 2
  /\ g4.st.loop_count = 2
  /\ g4.runs["detector"] = 3
  /\ g4.runs["narrative_designer"] = 1

\* C27: the back-edge to increment_loop is taken after a pass only if the
\* detector's run in that pass identified a contradiction.
BackEdgeOnlyOnFreshContradiction ==
  (g4.pc = "increment_loop" /\ g4.last.node = "detector") => g4.last.found

\* C28: in every pass the extractor reads each document the gatherer
\* collected in that pass, and the claims of a document are added to the
\* accumulated claims at most once per run.
ExtractorReadsEachDocumentOnce ==
  g4.pc # "idle" =>
    /\ g4.last.node = "extractor" =>
         PassDocuments(g4.st, g4.gathered) \subseteq g4.last.read
    /\ g4.added <= 1

\* C22: the four analysis nodes are scheduled together after
\* rag_prepare_node and return in any order; merge_dedupe_node runs exactly
\* once, after all four bundles were written, and merged_issues is
\* determined by the four bundles alone, whatever order the nodes finished
\* in.
MergeRunsOnceAfterAllBundles ==
  mm.pc # "idle" =>
    /\ mm.runs["merge_dedupe_node"] <= 1
    /\ \A n \in Range(AnalysisNodes) : mm.runs[n] <= 1
    /\ Range(mm.order) # {} => mm.runs["rag_prepare_node"] = 1
    /\ mm.runs["merge_dedupe_node"] = 1 =>
         /\ mm.seen = Range(AnalysisNodes)
         /\ DOMAIN mm.bundles = Range(AnalysisNodes)
    /\ mm.pc = "END" =>
         /\ mm.runs["merge_dedupe_node"] = 1
         /\ mm.merged_issues = merge_dedupe_node(mm.bundles)

\* The accessibility agent finished first and the visual agent last, both
\* with the same finding at the same severity: the visual agent's issue,
\* first in bundle order, is the one merged.
MergeRunsOnceAfterAllBundlesWitness ==
  /\ mm.pc = "END"
  /\ mm.order[1] = "accessibility_agent_node"
  /\ mm.order[4] = "visual_analysis_agent_node"
  /\ Len(mm.bundles["accessibility_agent_node"]) = 1
  /\ Len(mm.merged_issues) = 1
  /\ mm.merged_issues[1].agent = "visual_analysis_agent_node"
  /\ mm.merged_issues[1].severity = mm.bundles["accessibility_agent_node"][1].severity

\* C25: merge_dedupe_node returns exactly one issue per key (lower-cased
\* title, component) of the four bundles; the issue kept for a key is as
\* severe as any issue of that key, and the first of the equally severe
\* ones in bundle order visual, ux, market, accessibility.
MergeKeepsFirstMostSevere ==
  mm.pc = "report_compose_node" =>
    LET chain == BundleChain(mm.bundles)
        out   == mm.merged_issues
    IN /\ \A i, j \in DOMAIN out : MergeKey(out[i]) = MergeKey(out[j]) => i = j
       /\ {MergeKey(out[i]) : i \in DOMAIN out} = {MergeKey(chain[j]) : j \in DOMAIN chain}
       /\ \A i \in DOMAIN out :
            \E j \in DOMAIN chain :
              /\ out[i] = chain[j]
              /\ \A k \in DOMAIN chain :
                   MergeKey(chain[k]) = MergeKey(chain[j]) =>
                     \/ SEVERITY_ORDER(chain[j].severity) < SEVERITY_ORDER(chain[k].severity)
                     \/ /\ chain[j].severity = chain[k].severity
                        /\ j <= k

\* Three issues of one key, their titles differing in case: a high one of
\* the visual agent, then two blockers of the ux and the market agent; the
\* ux agent's blocker is kept.
MergeKeepsFirstMostSevereWitness ==
  /\ mm.pc = "report_compose_node"
  /\ Len(mm.bundles["visual_analysis_agent_node"]) = 1
  /\ Len(mm.bundles["ux_critique_agent_node"]) = 1
  /\ Len(mm.bundles["market_patterns_agent_node"]) = 1
  /\ mm.bundles["visual_analysis_agent_node"][1].severity = "high"
  /\ mm.bundles["ux_critique_agent_node"][1].severity = "blocker"
  /\ mm.bundles["market_patterns_agent_node"][1].severity = "blocker"
  /\ mm.bundles["visual_analysis_agent_node"][1].title # mm.bundles["ux_critique_agent_node"][1].title
  /\ Len(mm.merged_issues) = 1
  /\ mm.merged_issues[1].agent = "ux_critique_agent_node"

\* C29: the records written for a job follow queued -> running ->
\* (completed | failed) and nothing but "failed" follows "failed";
\* "completed" is recorded only after report.json, report.md and
\* action_items.json were saved, so GET /result answers "completed" only
\* with the report; and a job whose pipeline raised ends with the record
\* "failed".
StatusStep(a, b) ==
  \/ a = "queued" /\ b = "running"
  \/ a = "running" /\ b \in {"completed", "failed"}
  \/ a = "failed" /\ b = "failed"

JobStatusFollowsLifecycle ==
  mm.pc # "idle" =>
    /\ mm.recorded # <<>> => mm.recorded[1] = "queued"
    /\ \A i \in 1..(Len(mm.recorded) - 1) : StatusStep(mm.recorded[i], mm.recorded[i + 1])
    /\ (\E i \in DOMAIN mm.recorded : mm.recorded[i] = "completed") =>
         {"report.json", "report.md", "action_items.json"} \subseteq mm.outputs
    /\ mm.read = "completed" => "report.json" \in mm.outputs
    /\ mm.response.status = "completed" => mm.response.report
    /\ mm.pc = "done" =>
         mm.recorded[Len(mm.recorded)] = (IF mm.raised THEN "failed" ELSE "completed")

\* A poll that read "completed" and answered with the report.
JobStatusFollowsLifecycleWitness ==
  /\ mm.pc = "done"
  /\ mm.recorded = <<"queued", "running", "completed">>
  /\ mm.response = [status |-> "completed", report |-> TRUE]

\* C30: a poll that runs while set_job_status writes the record reads a
\* complete record, the old or the new one, never an empty file.
PollReadsCompleteRecord ==
  mm.pc # "idle" =>
    /\ mm.read # "empty"
    /\ mm.response.status # "JSONDecodeError"

====
